---- MODULE Spec2Model ----
(***************************************************************************)
(* The mapping backend of the RGB-D visual odometry: the worker thread of  *)
(* src/src/backend.cpp (BackendLoop and the five pipeline steps of one     *)
(* iteration), the frontend calls ProcessNewKeyframeAsync and Stop, and    *)
(* the keyframe / mappoint / MapManager operations the pipeline calls.     *)
(* backend.cpp is translated from the source.  The Frame, Mappoint and     *)
(* MapManager member functions that backend.cpp calls are not part of the  *)
(* sources at hand (src/include/myslam/frame.h is an older interface);     *)
(* they are modelled from sections 4.2 - 4.4 of the specification and are  *)
(* marked so where they are defined.                                       *)
(***************************************************************************)
EXTENDS Integers, Sequences, FiniteSets, TLC

(***************************************************************************)
(* Bounds of the model.                                                    *)
(***************************************************************************)
\* calls of ProcessNewKeyframeAsync in the thread-level specifications
MaxSubmissions == 3
\* keyframes submitted in the pipeline specification
MaxKeyframes == 3
\* mappoints the first keyframe creates (the map is empty before it)
InitBatch == 16
\* new mappoints of every later submission
MaxNew == 1
\* a later submission matches the registered mappoints with id >= lo, lo <= MaxLo
MaxLo == 2
\* (keyframe, new mappoint) pairs of one fusion sweep for which a keypoint matches
MaxMatches == 2
\* keypoints 0 .. MaxMatchKpt-1 (and the keypoint of the first new mappoint) can match
MaxMatchKpt == 2
\* descriptor distances are 1 .. MaxDistance
MaxDistance == 3
\* edges over the chi2 threshold in one outlier sweep
MaxOutliers == 1
\* measurements at the MaxNoisy keypoints from FirstNoisyKpt on can end over the
\* chi2 threshold
FirstNoisyKpt == 16
MaxNoisy == 2
\* keyframes of a run with large first submissions
MaxLargeKeyframes == 2
\* keyframes, and new mappoints of a submission, of a run with rival new mappoints
MaxRivalKeyframes == 2
MaxRivalNew == 2
\* estimates (poses, positions) are 0 .. MaxEstimate; the optimizer is converged there
MaxEstimate == 2

(***************************************************************************)
(* Program constants.                                                      *)
(***************************************************************************)
\* frame.h: "Covisible keyframes (has same observed mappoints >= 15)"
MinCovisibleWeight == 15
\* backend.cpp: if (trackingMap.size() < 100)
MinTrackingMapSize == 100
\* Config "chi2_th"
chi2Threshold_ == 5
\* Config "re_match_descriptor_distance"
reMatchDescriptorDistance_ == 2

Null == 0 - 1

(***************************************************************************)
(* Finite maps (std::unordered_map), as functions with an explicit domain. *)
(***************************************************************************)
EmptyMap == [x \in {} |-> 0]

Put(m, k, v) == (k :> v) @@ m

Erase(m, K) == [x \in (DOMAIN m) \ K |-> m[x]]

\* unordered_map::insert(first, last): a key already present keeps its value
Insert(m, src) == m @@ src

Range(m) == {m[x] : x \in DOMAIN m}

MinOf(S) == CHOOSE x \in S : \A y \in S : x <= y

MaxOf(S) == CHOOSE x \in S : \A y \in S : x >= y

\* the elements of S between lo and hi, in ascending order
RECURSIVE AscendingIn(_, _, _)
AscendingIn(S, lo, hi) ==
    IF lo > hi
    THEN <<>>
    ELSE IF lo = hi
    THEN IF lo \in S THEN <<lo>> ELSE <<>>
    ELSE AscendingIn(S, lo, (lo + hi) \div 2)
             \o AscendingIn(S, (lo + hi) \div 2 + 1, hi)

Ascending(S) == IF S = {} THEN <<>> ELSE AscendingIn(S, MinOf(S), MaxOf(S))

Descending(S) ==
    [i \in 1..Cardinality(S) |-> Ascending(S)[Cardinality(S) + 1 - i]]

\* the order in which a loop visits an unordered container
Order(S, desc) == IF desc THEN Descending(S) ELSE Ascending(S)

\* the orders that differ on S
Orders(S) == IF Cardinality(S) > 1 THEN BOOLEAN ELSE {FALSE}

VARIABLES
    backendRunning_,          \* Backend::backendRunning_
    backendMutex_,            \* TRUE while backendMutex_ is held
    workerPc,                 \* where the worker thread is in BackendLoop
    stopPc,                   \* where the frontend thread is in Stop
    keyframeCurr_,            \* the input slot: keyframe id or Null
    oldMptIdKptIdxMap_,       \* the input slot: old mappoint id -> keypoint
    newMptKptIdxMap_,         \* the input slot: new mappoint -> keypoint
    world,                    \* frames, mappoints and the MapManager registries
    optimizer_,               \* g2o optimizer: vertices and edges
    kfIdToCovKfThenVertex_,   \* keyframe id -> pose vertex
    mptIdToMptThenVertex_,    \* mappoint id -> mappoint vertex
    kfIdToFixedKfThenVertex_, \* keyframe id -> fixed pose vertex
    edgeToKfThenMpt_,         \* edge -> <<keyframe, mappoint>>
    refKeyframe,              \* frontend: reference keyframe id or Null
    trackingMap,              \* frontend: ids of the mappoints it tracks
    submitted,                \* history: arguments of the last submission
    pending,                  \* history: submissions since the worker last took one
    taken,                    \* history: the submissions the running iteration stands for
    fusionInput,              \* history: what the fusion just made was given
    T_c_w_,                   \* Frame::T_c_w_ of a frame both threads use, word by word
    poseMutex_,               \* Frame::poseMutex_: the thread that holds it, or NoThread
    accessPc,                 \* thread -> where it is in an accessor of the frame
    accessLocal               \* thread -> the words it has copied and what it returned

vars ==
    <<backendRunning_, backendMutex_, workerPc, stopPc, keyframeCurr_,
      oldMptIdKptIdxMap_, newMptKptIdxMap_, world, optimizer_,
      kfIdToCovKfThenVertex_, mptIdToMptThenVertex_, kfIdToFixedKfThenVertex_,
      edgeToKfThenMpt_, refKeyframe, trackingMap, submitted, pending, taken,
      fusionInput, T_c_w_, poseMutex_, accessPc, accessLocal>>

slotVars == <<keyframeCurr_, oldMptIdKptIdxMap_, newMptKptIdxMap_>>

optVars ==
    <<optimizer_, kfIdToCovKfThenVertex_, mptIdToMptThenVertex_,
      kfIdToFixedKfThenVertex_, edgeToKfThenMpt_>>

frontendVars == <<refKeyframe, trackingMap>>

threadVars == <<backendRunning_, backendMutex_, stopPc>>

historyVars == <<submitted, pending, taken, fusionInput>>

poseVars == <<T_c_w_, poseMutex_, accessPc, accessLocal>>

(***************************************************************************)
(* The entities.  world.frame and world.mappoint hold every Frame and      *)
(* Mappoint object that was created, by id (the ids come from the factory  *)
(* counters, so an id is the number of objects created before it);         *)
(* world.keyframes_ and world.mappoints_ are the MapManager's registries.  *)
(*   Frame:    observed       keypoint index -> mappoint id                *)
(*             covisible      keyframe id -> weight                        *)
(*             covisibleValid the cached covisibility is up to date        *)
(*             pose           T_c_w                                        *)
(*   Mappoint: observedBy     keyframe id -> keypoint index                *)
(*             outlier_, optimized_, position, replacement (id or Null)    *)
(***************************************************************************)
NewFrame ==
    [observed |-> EmptyMap, covisible |-> EmptyMap, covisibleValid |-> TRUE,
     pose |-> 0]

NewMappoint ==
    [observedBy |-> EmptyMap, outlier_ |-> FALSE, optimized_ |-> FALSE,
     position |-> 0, replacement |-> Null]

EmptyWorld ==
    [frame |-> EmptyMap, mappoint |-> EmptyMap, keyframes_ |-> {}, mappoints_ |-> {}]

\* Frame::GetObservingMappointIds
GetObservingMappointIds(W, k) == Range(W.frame[k].observed)

\* the keypoints of keyframe k that are bound to mappoint m
KeypointsOf(W, k, m) ==
    {kp \in DOMAIN W.frame[k].observed : W.frame[k].observed[kp] = m}

\* Frame::IsKeypointMatchWithMappoint(kptIdx, out mptId)
IsKeypointMatchWithMappoint(W, k, kp) == kp \in DOMAIN W.frame[k].observed

\* Mappoint: add_observation(kf_id, keypoint_index)
MptAddObservation(W, m, k, kp) ==
    [W EXCEPT !.mappoint[m].observedBy = Put(@, k, kp)]

\* Mappoint: remove_observation(kf_id); no observation left marks it outlier
MptRemoveObservation(W, m, k) ==
    IF k \notin DOMAIN W.mappoint[m].observedBy
    THEN W
    ELSE LET ob == Erase(W.mappoint[m].observedBy, {k})
         IN  [W EXCEPT !.mappoint[m].observedBy = ob,
                       !.mappoint[m].outlier_ = @ \/ DOMAIN ob = {}]

\* Frame::AddObservingMappoint(mpt, kptIdx): both sides of the observation,
\* and the cached covisibility of this keyframe is invalidated
AddObservingMappoint(W, k, m, kp) ==
    MptAddObservation(
        [W EXCEPT !.frame[k].observed = Put(@, kp, m),
                  !.frame[k].covisibleValid = FALSE],
        m, k, kp)

\* Frame::AddCovisibleKeyframe(id, weight)
AddCovisibleKeyframe(W, k, id, weight) ==
    [W EXCEPT !.frame[k].covisible = Put(@, id, weight)]

\* Frame::DecreaseCovisibleKeyFrameWeightByOneWithoutMutex(id): the weight this
\* keyframe records for keyframe id; below the minimum the entry is dropped
DecreaseCovisibleKeyFrameWeightByOneWithoutMutex(W, k, id) ==
    IF id \notin DOMAIN W.frame[k].covisible
    THEN W
    ELSE LET w == W.frame[k].covisible[id] - 1
         IN  IF w < MinCovisibleWeight
             THEN [W EXCEPT !.frame[k].covisible = Erase(@, {id})]
             ELSE [W EXCEPT !.frame[k].covisible = Put(@, id, w)]

\* Frame::DecreaseCovisibleKeyframeWeightByOne(id): the same, under the lock
DecreaseCovisibleKeyframeWeightByOne(W, k, id) ==
    DecreaseCovisibleKeyFrameWeightByOneWithoutMutex(W, k, id)

RECURSIVE DecreaseAll(_, _, _)
DecreaseAll(W, k, others) ==
    IF others = <<>>
    THEN W
    ELSE DecreaseAll(
             DecreaseCovisibleKeyframeWeightByOne(
                 DecreaseCovisibleKeyFrameWeightByOneWithoutMutex(W, k, Head(others)),
                 Head(others), k),
             k, Tail(others))

\* Frame::RemoveObservedMappoint(mptId): the mirror of AddObservingMappoint;
\* the weight of every currently covisible keyframe is decreased by one, on
\* both sides of the link
RemoveObservedMappoint(W, k, m) ==
    IF KeypointsOf(W, k, m) = {}
    THEN W
    ELSE DecreaseAll(
             MptRemoveObservation(
                 [W EXCEPT !.frame[k].observed = Erase(@, KeypointsOf(W, k, m))],
                 m, k),
             k, Ascending(DOMAIN W.frame[k].covisible))

\* the number of mappoints keyframe k observes that keyframe k2 observes too,
\* counted as ComputeCovisibleKeyframes counts: over the observers the
\* mappoints of k list
SharedCount(W, k, k2) ==
    Cardinality({m \in GetObservingMappointIds(W, k) :
                    k2 \in DOMAIN W.mappoint[m].observedBy})

RECURSIVE AddCovisibleToAll(_, _, _)
AddCovisibleToAll(W, k, others) ==
    IF others = <<>>
    THEN W
    ELSE AddCovisibleToAll(
             AddCovisibleKeyframe(W, Head(others), k, SharedCount(W, k, Head(others))),
             k, Tail(others))

\* Frame::ComputeCovisibleKeyframes: rebuild from the observed mappoints, keep
\* the keyframes with at least MinCovisibleWeight shared mappoints, write both sides
ComputeCovisibleKeyframes(W, k) ==
    LET others == {k2 \in (DOMAIN W.frame) \ {k} :
                      SharedCount(W, k, k2) >= MinCovisibleWeight}
        W1 == [W EXCEPT !.frame[k].covisible =
                            [k2 \in others |-> SharedCount(W, k, k2)],
                        !.frame[k].covisibleValid = TRUE]
    IN  AddCovisibleToAll(W1, k, Ascending(others))

\* what a getter of the covisibility does first: an invalidated cache is rebuilt
RefreshCovisible(W, k) ==
    IF W.frame[k].covisibleValid THEN W ELSE ComputeCovisibleKeyframes(W, k)

\* Frame::GetAllCovisibleKfIds (of a refreshed keyframe)
GetAllCovisibleKfIds(W, k) == DOMAIN W.frame[k].covisible

\* Frame::GetActiveCovisibleKfIds (of a refreshed keyframe)
GetActiveCovisibleKfIds(W, k) == DOMAIN W.frame[k].covisible

(***************************************************************************)
(* MapManager.                                                             *)
(***************************************************************************)
\* MapManager::AddKeyframe: idempotent on the id
AddKeyframe(W, k) == [W EXCEPT !.keyframes_ = @ \cup {k}]

\* MapManager::AddMappoint: idempotent on the id
AddMappoint(W, m) == [W EXCEPT !.mappoints_ = @ \cup {m}]

\* MapManager::GetKeyframe: the keyframe or none
GetKeyframe(W, id) == IF id \in W.keyframes_ THEN id ELSE Null

\* MapManager::GetMappoint: the mappoint or none
GetMappoint(W, id) == IF id \in W.mappoints_ THEN id ELSE Null

\* MapManager::GetAllMappoints: a snapshot
GetAllMappoints(W) == W.mappoints_

RECURSIVE FollowReplacement(_, _, _)
FollowReplacement(W, id, fuel) ==
    IF W.mappoint[id].replacement = Null \/ fuel = 0
    THEN id
    ELSE FollowReplacement(W, W.mappoint[id].replacement, fuel - 1)

\* MapManager::GetPotentialReplacedMappoint: the survivor at the end of the
\* replacement chain of id, or none when id is not registered
GetPotentialReplacedMappoint(W, id) ==
    IF id \notin W.mappoints_
    THEN Null
    ELSE FollowReplacement(W, id, Cardinality(DOMAIN W.mappoint))

RECURSIVE CompressFrom(_, _, _, _)
CompressFrom(W, id, survivor, fuel) ==
    IF W.mappoint[id].replacement = Null \/ fuel = 0
    THEN W
    ELSE CompressFrom([W EXCEPT !.mappoint[id].replacement = survivor],
                      W.mappoint[id].replacement, survivor, fuel - 1)

\* the chain is compressed on read
CompressReplacement(W, id) ==
    IF id \notin W.mappoints_
    THEN W
    ELSE CompressFrom(W, id, GetPotentialReplacedMappoint(W, id),
                      Cardinality(DOMAIN W.mappoint))

\* MapManager::ReplaceMappoint(old, new): old becomes an outlier replaced by new,
\* every keyframe observing old has its entries rewritten to new, and
\* old.observed_by is merged into new.observed_by (new wins on conflict)
ReplaceMappoint(W, old, new) ==
    IF old \notin W.mappoints_ \/ new \notin W.mappoints_
    THEN W
    ELSE LET obOld == W.mappoint[old].observedBy
             obNew == W.mappoint[new].observedBy
         IN  [W EXCEPT
                 !.mappoint[old].outlier_ = TRUE,
                 !.mappoint[old].replacement = new,
                 !.mappoint[new].observedBy = Insert(obNew, obOld),
                 !.frame = [k \in DOMAIN W.frame |->
                              IF k \in DOMAIN obOld
                              THEN [W.frame[k] EXCEPT !.observed =
                                      [kp \in DOMAIN @ |->
                                          IF @[kp] = old THEN new ELSE @[kp]]]
                              ELSE W.frame[k]]]

(***************************************************************************)
(* Backend: the steps of one iteration, as functions of the world and the  *)
(* input slot.  A step that dereferences a null pointer returns ok = FALSE.*)
(***************************************************************************)
\* lines 65-69 with the submitted id attached as it is
AttachOneOldUnresolved(W, cur, oldMap, mptId) ==
    LET mpt == GetMappoint(W, mptId)
    IN  IF mpt = Null \/ cur = Null
        THEN [ok |-> FALSE, w |-> W]
        ELSE [ok |-> TRUE, w |-> AddObservingMappoint(W, cur, mpt, oldMap[mptId])]

\* lines 65-69, one entry of oldMptIdKptIdxMap_
AttachOneOld(W, cur, oldMap, mptId) ==
    LET \* old mpt may be replaced by previous new mpt
        mpt == GetPotentialReplacedMappoint(W, mptId)
    IN  IF mpt = Null \/ cur = Null
        THEN [ok |-> FALSE, w |-> W]
        ELSE [ok |-> TRUE,
              w |-> AddObservingMappoint(CompressReplacement(W, mptId),
                                         cur, mpt, oldMap[mptId])]

\* lines 64-70: the entries ids[lo] .. ids[hi], in this order
RECURSIVE AttachOld(_, _, _, _, _, _)
AttachOld(R, cur, oldMap, ids, lo, hi) ==
    IF lo > hi \/ ~R.ok
    THEN R
    ELSE IF lo = hi
    THEN AttachOneOld(R.w, cur, oldMap, ids[lo])
    ELSE AttachOld(AttachOld(R, cur, oldMap, ids, lo, (lo + hi) \div 2),
                   cur, oldMap, ids, (lo + hi) \div 2 + 1, hi)

\* lines 73-76, one entry of newMptKptIdxMap_
AttachOneNew(W, cur, newMap, mpt) ==
    IF cur = Null
    THEN [ok |-> FALSE, w |-> AddMappoint(W, mpt)]
    ELSE [ok |-> TRUE,
          w |-> AddObservingMappoint(AddMappoint(W, mpt), cur, mpt, newMap[mpt])]

\* lines 72-77: the entries ids[lo] .. ids[hi], in this order
RECURSIVE AttachNew(_, _, _, _, _, _)
AttachNew(R, cur, newMap, ids, lo, hi) ==
    IF lo > hi \/ ~R.ok
    THEN R
    ELSE IF lo = hi
    THEN AttachOneNew(R.w, cur, newMap, ids[lo])
    ELSE AttachNew(AttachNew(R, cur, newMap, ids, lo, (lo + hi) \div 2),
                   cur, newMap, ids, (lo + hi) \div 2 + 1, hi)

\* Backend::AddObservingMappointsToNewKeyframe; desc is the order in which the
\* loops over oldMptIdKptIdxMap_ and newMptKptIdxMap_ visit their entries
AddObservingMappointsToNewKeyframe(W, cur, oldMap, newMap, desc) ==
    LET olds == Order(DOMAIN oldMap, desc)
        news == Order(DOMAIN newMap, desc)
        r == AttachOld([ok |-> TRUE, w |-> W], cur, oldMap, olds, 1, Len(olds))
    IN  AttachNew(r, cur, newMap, news, 1, Len(news))

\* lines 83-96: every registered covisible keyframe has its own covisibility
\* read (an invalidated cache is rebuilt by the read)
RECURSIVE RefreshNeighbors(_, _)
RefreshNeighbors(W, kfIds) ==
    IF kfIds = <<>>
    THEN W
    ELSE RefreshNeighbors(
             IF GetKeyframe(W, Head(kfIds)) = Null
             THEN W
             ELSE RefreshCovisible(W, Head(kfIds)),
             Tail(kfIds))

\* what the inner loop of lines 89-95 inserts for the covisible keyframe kfId:
\* MapManager::GetKeyframe is called with kfId for every neighbour
NeighborKfs(W, kfId) ==
    {GetKeyframe(W, kfId) : neighborKfId \in GetAllCovisibleKfIds(W, kfId)} \ {Null}

\* lines 81-96 if the submitted keyframe were swept as well
CovisibleKfsWithCurrent(W, cur, covisibleKfIds) ==
    UNION {{kfId} \cup NeighborKfs(W, kfId) :
              kfId \in {id \in covisibleKfIds : GetKeyframe(W, id) # Null}}
      \cup {cur}

\* lines 81-99: the keyframes the fusion sweeps (W is the world after the reads)
CovisibleKfs(W, cur, covisibleKfIds) ==
    UNION {{kfId} \cup NeighborKfs(W, kfId) :
              kfId \in {id \in covisibleKfIds : GetKeyframe(W, id) # Null}}
      \ {cur}

\* lines 124-125 with > in the place of >=
KeepsStoredIfCloser(stored, key, distance) ==
    key \in DOMAIN stored /\ distance > stored[key].distance

\* lines 124-125 and 131-132: the candidate stored for key is kept
KeepsStored(stored, key, distance) ==
    key \in DOMAIN stored /\ distance >= stored[key].distance

\* lines 116-137: the new mappoints against one keyframe
RECURSIVE SweepMappoints(_, _, _, _, _, _)
SweepMappoints(W, kf, mpts, match, cand, kptMap) ==
    IF mpts = <<>>
    THEN [cand |-> cand, kptMap |-> kptMap]
    ELSE LET mpt == Head(mpts)
             r == match[<<kf, mpt>>]
         IN  IF ~r.found \/ r.distance > reMatchDescriptorDistance_
             THEN SweepMappoints(W, kf, Tail(mpts), match, cand, kptMap)
             ELSE IF IsKeypointMatchWithMappoint(W, kf, r.kptIdx)
             THEN LET oldMptId == W.frame[kf].observed[r.kptIdx]
                  IN  IF KeepsStored(cand, oldMptId, r.distance)
                      THEN SweepMappoints(W, kf, Tail(mpts), match, cand, kptMap)
                      ELSE SweepMappoints(W, kf, Tail(mpts), match,
                               Put(cand, oldMptId, [mpt |-> mpt, distance |-> r.distance]),
                               kptMap)
             ELSE IF KeepsStored(kptMap, r.kptIdx, r.distance)
                  THEN SweepMappoints(W, kf, Tail(mpts), match, cand, kptMap)
                  ELSE SweepMappoints(W, kf, Tail(mpts), match, cand,
                           Put(kptMap, r.kptIdx, [mpt |-> mpt, distance |-> r.distance]))

\* lines 113-143: every swept keyframe
RECURSIVE SweepKeyframes(_, _, _, _, _, _)
SweepKeyframes(W, kfs, mpts, match, cand, toAdd) ==
    IF kfs = <<>>
    THEN [cand |-> cand, toAdd |-> toAdd]
    ELSE LET r == SweepMappoints(W, Head(kfs), mpts, match, cand, EmptyMap)
         IN  SweepKeyframes(W, Tail(kfs), mpts, match, r.cand,
                 toAdd \o [i \in 1..Len(Ascending(DOMAIN r.kptMap)) |->
                             [kf |-> Head(kfs),
                              mpt |-> r.kptMap[Ascending(DOMAIN r.kptMap)[i]].mpt,
                              kptIdx |-> Ascending(DOMAIN r.kptMap)[i]]])

\* lines 146-148
RECURSIVE AddObservations(_, _)
AddObservations(W, toAdd) ==
    IF toAdd = <<>>
    THEN W
    ELSE AddObservations(
             AddObservingMappoint(W, Head(toAdd).kf, Head(toAdd).mpt, Head(toAdd).kptIdx),
             Tail(toAdd))

\* lines 151-154
RECURSIVE ReplaceAll(_, _, _)
ReplaceAll(W, cand, olds) ==
    IF olds = <<>>
    THEN W
    ELSE ReplaceAll(ReplaceMappoint(W, Head(olds), cand[Head(olds)].mpt),
                    cand, Tail(olds))

\* the keyframes swept by the fusion of keyframe cur, and the world after the
\* reads of the covisibility that determine them
FusionReads(W, cur) ==
    LET W1 == RefreshCovisible(W, cur)
        covisibleKfIds == GetAllCovisibleKfIds(W1, cur)
        W2 == RefreshNeighbors(W1, Ascending(covisibleKfIds))
    IN  [w |-> W2, kfs |-> CovisibleKfs(W2, cur, covisibleKfIds)]

\* the candidates and the observations to add that the sweep collects
FusionSweep(W, kfs, newMap, match, kfDesc, mptDesc) ==
    SweepKeyframes(W, Order(kfs, kfDesc), Order(DOMAIN newMap, mptDesc), match,
                   EmptyMap, <<>>)

\* Backend::AddNewMappointsToExistingKeyframe.  match[<<kf, mpt>>] is what
\* kf->GetMatchedKeypoint(mpt, ...) returns; kfDesc, mptDesc and replDesc are
\* the orders in which the loops visit covisibleKfs, newMptKptIdxMap_ and
\* oldMptIdToNewMptIdAndDistance; reads is FusionReads of the current keyframe
AddNewMappointsToExistingKeyframe(reads, newMap, match, kfDesc, mptDesc, replDesc) ==
    LET swept == FusionSweep(reads.w, reads.kfs, newMap, match, kfDesc, mptDesc)
    IN  ReplaceAll(AddObservations(reads.w, swept.toAdd),
                   swept.cand, Order(DOMAIN swept.cand, replDesc))

(***************************************************************************)
(* Local bundle adjustment.  A vertex is [kind, of, fixed, estimate]; an   *)
(* edge is [pose, mappoint, kpt, level, chi2, removed], where pose and     *)
(* mappoint are vertex ids, kpt is the measured keypoint and removed       *)
(* counts the calls of RemoveObservedMappoint made for the edge.           *)
(***************************************************************************)
EmptyOptimizer == [vertices |-> EmptyMap, edges |-> EmptyMap]

EmptyBuild ==
    [ok |-> TRUE, opt |-> EmptyOptimizer, cov |-> EmptyMap, mptv |-> EmptyMap,
     fixed |-> EmptyMap, e2km |-> EmptyMap, vertexIndex |-> 0, edgeIndex |-> 0]

\* lines 195-215, one observed mappoint id
AddMappointVertex(W, B, mptId) ==
    IF mptId \in DOMAIN B.mptv
    THEN B
    ELSE IF GetMappoint(W, mptId) = Null \/ W.mappoint[mptId].outlier_
    THEN B
    ELSE [B EXCEPT !.vertexIndex = B.vertexIndex + 1,
                   !.opt.vertices = Put(@, B.vertexIndex + 1,
                       [kind |-> "mappoint", of |-> mptId, fixed |-> FALSE,
                        estimate |-> W.mappoint[mptId].position]),
                   !.mptv = Put(@, mptId, B.vertexIndex + 1)]

\* lines 194-216: the ids mptIds[lo] .. mptIds[hi], in this order
RECURSIVE AddMappointVertices(_, _, _, _, _)
AddMappointVertices(W, B, mptIds, lo, hi) ==
    IF lo > hi \/ ~B.ok
    THEN B
    ELSE IF lo = hi
    THEN AddMappointVertex(W, B, mptIds[lo])
    ELSE AddMappointVertices(W,
             AddMappointVertices(W, B, mptIds, lo, (lo + hi) \div 2),
             mptIds, (lo + hi) \div 2 + 1, hi)

\* line 187 with no keyframe fixed
IsFixedPoseNever(kfId) == FALSE

\* line 187: poseVertex->setFixed(kf->GetId() == 0)
IsFixedPose(kfId) == kfId = 0

\* lines 174-217
RECURSIVE AddPoseVertices(_, _, _)
AddPoseVertices(W, B, kfIds) ==
    IF kfIds = <<>>
    THEN B
    ELSE LET kfId == Head(kfIds)
             vid == B.vertexIndex + 1
         IN  IF GetKeyframe(W, kfId) = Null
             THEN AddPoseVertices(W, B, Tail(kfIds))
             ELSE AddPoseVertices(W,
                      AddMappointVertices(W,
                          [B EXCEPT !.vertexIndex = vid,
                                    !.opt.vertices = Put(@, vid,
                                        [kind |-> "pose", of |-> kfId, fixed |-> IsFixedPose(kfId),
                                         estimate |-> W.frame[kfId].pose]),
                                    !.cov = Put(@, kfId, vid)],
                          Ascending(GetObservingMappointIds(W, kfId)),
                          1, Cardinality(GetObservingMappointIds(W, kfId))),
                      Tail(kfIds))

\* lines 245-279: the edge of one observer of one mappoint vertex
AddEdge(W, B, mptId, kfId) ==
    LET isCov == kfId \in DOMAIN B.cov
        vid == IF isCov THEN B.vertexIndex ELSE B.vertexIndex + 1
        poseVertex == IF isCov THEN B.cov[kfId] ELSE vid
        eid == B.edgeIndex + 1
        B1 == IF isCov
              THEN B
              ELSE [B EXCEPT !.vertexIndex = vid,
                             !.opt.vertices = Put(@, vid,
                                 [kind |-> "pose", of |-> kfId, fixed |-> TRUE,
                                  estimate |-> W.frame[kfId].pose]),
                             !.fixed = Put(@, kfId, vid)]
    IN  [B1 EXCEPT !.edgeIndex = eid,
                   !.opt.edges = Put(@, eid,
                       [pose |-> poseVertex, mappoint |-> B.mptv[mptId],
                        kpt |-> W.mappoint[mptId].observedBy[kfId],
                        level |-> 0, chi2 |-> 0, removed |-> 0]),
                   !.e2km = Put(@, eid, [kf |-> kfId, mpt |-> mptId])]

\* lines 234-285: keyframe->GetKeypoint is called before keyframe is tested
RECURSIVE AddEdgesOf(_, _, _, _)
AddEdgesOf(W, B, mptId, kfIds) ==
    IF kfIds = <<>> \/ ~B.ok
    THEN B
    ELSE IF GetKeyframe(W, Head(kfIds)) = Null
         THEN [B EXCEPT !.ok = FALSE]
         ELSE AddEdgesOf(W, AddEdge(W, B, mptId, Head(kfIds)), mptId, Tail(kfIds))

\* lines 224-297: the mappoint vertices mptIds[lo] .. mptIds[hi], in this order
RECURSIVE AddEdges(_, _, _, _, _)
AddEdges(W, B, mptIds, lo, hi) ==
    IF lo > hi \/ ~B.ok
    THEN B
    ELSE IF lo = hi
    THEN AddEdgesOf(W, B, mptIds[lo],
                    Ascending(DOMAIN W.mappoint[mptIds[lo]].observedBy))
    ELSE AddEdges(W, AddEdges(W, B, mptIds, lo, (lo + hi) \div 2),
                  mptIds, (lo + hi) \div 2 + 1, hi)

\* lines 167-297: the graph of the round
BuildGraph(W, cur, activeKfIds) ==
    LET B == AddPoseVertices(W, EmptyBuild, Ascending(activeKfIds \cup {cur}))
    IN  AddEdges(W, B, Ascending(DOMAIN B.mptv), 1, Cardinality(DOMAIN B.mptv))

Bump(estimate) == IF estimate < MaxEstimate THEN estimate + 1 ELSE estimate

\* optimizer_.initializeOptimization(0); optimizer_.optimize(10): the vertices
\* of the level-0 edges that are not fixed get a new estimate
Optimize(opt) ==
    [opt EXCEPT !.vertices =
        [v \in DOMAIN @ |->
            IF ~@[v].fixed
               /\ \E e \in DOMAIN opt.edges :
                     /\ opt.edges[e].level = 0
                     /\ v \in {opt.edges[e].pose, opt.edges[e].mappoint}
            THEN [@[v] EXCEPT !.estimate = Bump(@)]
            ELSE @[v]]]

\* edge->computeError(); edge->chi2(): over are the edges the optimization left
\* above the threshold; a noisy measurement that it fitted is at the threshold
ComputeError(opt, over) ==
    [opt EXCEPT !.edges =
        [e \in DOMAIN @ |->
            [@[e] EXCEPT !.chi2 = IF e \in over THEN chi2Threshold_ + 1
                                  ELSE IF /\ opt.edges[e].kpt >= FirstNoisyKpt
                                          /\ opt.edges[e].kpt < FirstNoisyKpt + MaxNoisy
                                  THEN chi2Threshold_
                                  ELSE 0]]]

\* line 308
IsOutlierFirst(edge) == edge.chi2 > chi2Threshold_

\* line 325 without the test of the level
IsOutlierSecondAnyLevel(edge) == edge.chi2 > chi2Threshold_

\* line 325
IsOutlierSecond(edge) == edge.level = 0 /\ edge.chi2 > chi2Threshold_

\* lines 306-315, one entry of edgeToKfThenMpt_
FirstSweepEdge(R, e2km, e) ==
    IF IsOutlierFirst(R.opt.edges[e])
    THEN [R EXCEPT !.w = RemoveObservedMappoint(@, e2km[e].kf, e2km[e].mpt),
                   !.opt.edges[e].level = 1,
                   !.opt.edges[e].removed = @ + 1]
    ELSE R

\* lines 305-316: the edges eids[lo] .. eids[hi], in this order
RECURSIVE FirstSweep(_, _, _, _, _)
FirstSweep(R, e2km, eids, lo, hi) ==
    IF lo > hi \/ DOMAIN R.opt.edges = {}
    THEN R
    ELSE IF lo = hi
    THEN FirstSweepEdge(R, e2km, eids[lo])
    ELSE FirstSweep(FirstSweep(R, e2km, eids, lo, (lo + hi) \div 2),
                    e2km, eids, (lo + hi) \div 2 + 1, hi)

\* lines 323-331, one entry of edgeToKfThenMpt_
SecondSweepEdge(R, e2km, e) ==
    LET R1 == IF IsOutlierSecond(R.opt.edges[e])
              THEN [R EXCEPT !.w = RemoveObservedMappoint(@, e2km[e].kf, e2km[e].mpt),
                             !.opt.edges[e].removed = @ + 1]
              ELSE R
    IN  [R1 EXCEPT !.w.mappoint[e2km[e].mpt].optimized_ = TRUE]

\* lines 322-332: the edges eids[lo] .. eids[hi], in this order
RECURSIVE SecondSweep(_, _, _, _, _)
SecondSweep(R, e2km, eids, lo, hi) ==
    IF lo > hi \/ DOMAIN R.opt.edges = {}
    THEN R
    ELSE IF lo = hi
    THEN SecondSweepEdge(R, e2km, eids[lo])
    ELSE SecondSweep(SecondSweep(R, e2km, eids, lo, (lo + hi) \div 2),
                     e2km, eids, (lo + hi) \div 2 + 1, hi)

\* lines 299-332: the two optimizations and the two outlier sweeps
TwoPass(W, B, over1, over2) ==
    LET eids == Ascending(DOMAIN B.e2km)
        R1 == FirstSweep([w |-> W, opt |-> ComputeError(Optimize(B.opt), over1)],
                         B.e2km, eids, 1, Len(eids))
        R2 == [R1 EXCEPT !.opt = ComputeError(Optimize(@), over2)]
    IN  SecondSweep(R2, B.e2km, eids, 1, Len(eids))

\* the edges of a graph whose chi2 can end above the threshold: the
\* measurements at the keypoints FirstNoisyKpt .. FirstNoisyKpt + MaxNoisy - 1
NoisyEdges(B) ==
    {e \in DOMAIN B.opt.edges :
        /\ B.opt.edges[e].kpt >= FirstNoisyKpt
        /\ B.opt.edges[e].kpt < FirstNoisyKpt + MaxNoisy}

\* Backend::OptimizeLocalMap after the graph B of the round was built
OptimizeRound(W, B, over1, over2) ==
    LET R == TwoPass(W, B, over1, over2)
    IN  IF B.ok
        THEN [ok |-> TRUE, w |-> R.w, opt |-> R.opt, cov |-> B.cov, mptv |-> B.mptv,
              fixed |-> B.fixed, e2km |-> B.e2km]
        ELSE [ok |-> FALSE, w |-> W, opt |-> B.opt, cov |-> B.cov, mptv |-> B.mptv,
              fixed |-> B.fixed, e2km |-> B.e2km]

(***************************************************************************)
(* Frontend handoff.                                                       *)
(***************************************************************************)
\* line 348
ResetsTrackingMap(ref, cur) == ref = Null \/ ref # cur

\* lines 350-363 with <= in the test of line 360
RebuiltTrackingMapAtMost(W, mptv) ==
    LET round == {mptId \in DOMAIN mptv : ~W.mappoint[mptId].outlier_}
    IN  IF Cardinality(round) <= MinTrackingMapSize
        THEN GetAllMappoints(W)
        ELSE round

\* lines 350-363
RebuiltTrackingMap(W, mptv) ==
    LET round == {mptId \in DOMAIN mptv : ~W.mappoint[mptId].outlier_}
    IN  IF Cardinality(round) < MinTrackingMapSize
        THEN GetAllMappoints(W)
        ELSE round

\* lines 366-370
WriteBackPoses(W, cov, opt) ==
    [W EXCEPT !.frame =
        [k \in DOMAIN @ |->
            IF k \in DOMAIN cov
            THEN [@[k] EXCEPT !.pose = opt.vertices[cov[k]].estimate]
            ELSE @[k]]]

\* lines 372-379 without the test of outlier_
WriteBackPositionsOfAll(W, mptv, opt) ==
    [W EXCEPT !.mappoint =
        [m \in DOMAIN @ |->
            IF m \in DOMAIN mptv
            THEN [@[m] EXCEPT !.position = opt.vertices[mptv[m]].estimate]
            ELSE @[m]]]

\* lines 372-379
WriteBackPositions(W, mptv, opt) ==
    [W EXCEPT !.mappoint =
        [m \in DOMAIN @ |->
            IF m \in DOMAIN mptv /\ ~@[m].outlier_
            THEN [@[m] EXCEPT !.position = opt.vertices[mptv[m]].estimate]
            ELSE @[m]]]

\* Backend::UpdateFrontendTrackingMap: the lambda run by the frontend's handler
UpdateFrontendTrackingMap(W, cur, ref, tm, cov, mptv, opt) ==
    [ref |-> IF ResetsTrackingMap(ref, cur) THEN cur ELSE ref,
     tm |-> IF ResetsTrackingMap(ref, cur) THEN RebuiltTrackingMap(W, mptv) ELSE tm,
     w |-> WriteBackPositions(WriteBackPoses(W, cov, opt), mptv, opt)]

(***************************************************************************)
(* The inputs.                                                             *)
(***************************************************************************)
\* mappoints of the first submission in the thread-level specifications
SmallBatch == 1

\* the frontend creates the frame and the new mappoints of a submission
CreateEntities(W, sub) ==
    [W EXCEPT !.frame = Insert(@, [k \in {sub.kf} |-> NewFrame]),
              !.mappoint = Insert(@, [m \in DOMAIN sub.new |-> NewMappoint])]

\* the submissions the frontend can make in world W: a new frame; the first
\* one creates batch mappoints, a later one matches the registered mappoints
\* with id >= lo and creates up to maxNew mappoints.  A mappoint is seen at the
\* keypoint whose index is the mappoint's id.
Submissions(W, batch, maxLo, maxNew) ==
    LET kf == Cardinality(DOMAIN W.frame)
        next == Cardinality(DOMAIN W.mappoint)
    IN  IF next = 0
        THEN {[kf |-> kf, old |-> EmptyMap, new |-> [m \in 0..(batch - 1) |-> m]]}
        ELSE {[kf |-> kf,
               old |-> [m \in {x \in W.mappoints_ : x >= lo} |-> m],
               new |-> [m \in next..(next + n - 1) |-> m]] :
                  lo \in 0..maxLo, n \in 0..maxNew}

NoMatch == [found |-> FALSE, kptIdx |-> 0, distance |-> 0]

\* what Frame::GetMatchedKeypoint can return for the pairs of one sweep
MatchChoices(kfs, mpts) ==
    LET pairs == kfs \X mpts
        kpts == (0..(MaxMatchKpt - 1)) \cup (IF mpts = {} THEN {} ELSE {MinOf(mpts)})
        hits == {Q \in SUBSET pairs : Cardinality(Q) <= MaxMatches}
    IN  UNION {
          {[p \in pairs |->
               IF p \in Q
               THEN [found |-> TRUE, kptIdx |-> r[p][1], distance |-> r[p][2]]
               ELSE NoMatch] : r \in [Q -> kpts \X (1..MaxDistance)]} : Q \in hits}

\* no fusion was just made
NoFusion == [kfs |-> {}, match |-> EmptyMap, kfDesc |-> FALSE, mptDesc |-> FALSE]

\* the sets of edges an optimization can leave above the chi2 threshold
OverChoices(B) == {Q \in SUBSET NoisyEdges(B) : Cardinality(Q) <= MaxOutliers}

(***************************************************************************)
(* The frontend thread.                                                    *)
(***************************************************************************)
\* backendUpdateTrigger_.notify_one(): a waiting worker is woken
NotifyOne(pc) == IF pc = "waiting" THEN "notified" ELSE pc

\* the insert() of lines 35 and 37 without the clear() before it
ReplaceInputNoClear(stored, given) == Insert(stored, given)

\* lines 34-37: clear() and insert() of a stored input map
ReplaceInput(stored, given) == Insert(EmptyMap, given)

\* Backend::ProcessNewKeyframeAsync, atomic under backendMutex_
ProcessNewKeyframeAsync(keyframe, oldMap, newMap) ==
    /\ ~backendMutex_
    /\ keyframeCurr_' = keyframe
    /\ oldMptIdKptIdxMap_' = ReplaceInput(oldMptIdKptIdxMap_, oldMap)
    /\ newMptKptIdxMap_' = ReplaceInput(newMptKptIdxMap_, newMap)
    /\ workerPc' = NotifyOne(workerPc)
    /\ submitted' = [kf |-> keyframe, old |-> oldMap, new |-> newMap]
    /\ pending' = pending + 1
    /\ UNCHANGED <<threadVars, optVars, frontendVars, taken, fusionInput>>
    /\ UNCHANGED poseVars

\* the frontend submits a keyframe at any time (thread-level specifications)
Submit ==
    /\ stopPc = "idle"
    /\ Cardinality(DOMAIN world.frame) < MaxSubmissions
    /\ \E sub \in Submissions(world, SmallBatch, 0, MaxNew) :
          /\ world' = CreateEntities(world, sub)
          /\ ProcessNewKeyframeAsync(sub.kf, sub.old, sub.new)

\* the frontend submits once the previous submission was consumed and the
\* worker waits for the next (pipeline specification)
SubmitNext ==
    /\ stopPc = "idle"
    /\ workerPc = "waiting"
    /\ pending = 0
    /\ Cardinality(DOMAIN world.frame) < MaxKeyframes
    /\ \E sub \in Submissions(world, InitBatch, MaxLo, MaxNew) :
          /\ world' = CreateEntities(world, sub)
          /\ ProcessNewKeyframeAsync(sub.kf, sub.old, sub.new)

\* the sizes of a large first submission, around the fallback threshold
LargeBatches == (MinTrackingMapSize - 1)..(MinTrackingMapSize + MaxOutliers)

\* the frontend submits keyframes that see about MinTrackingMapSize mappoints
SubmitLarge ==
    /\ stopPc = "idle"
    /\ workerPc = "waiting"
    /\ pending = 0
    /\ Cardinality(DOMAIN world.frame) < MaxLargeKeyframes
    /\ \E batch \in LargeBatches :
       \E sub \in Submissions(world, batch, 0, 0) :
          /\ world' = CreateEntities(world, sub)
          /\ ProcessNewKeyframeAsync(sub.kf, sub.old, sub.new)

\* the submissions of a frontend that matches a frame against every mappoint
\* it has created, registered by the backend or not yet
TrackedSubmissions(W, batch, maxNew) ==
    LET kf == Cardinality(DOMAIN W.frame)
        next == Cardinality(DOMAIN W.mappoint)
    IN  IF next = 0
        THEN {[kf |-> kf, old |-> EmptyMap, new |-> [m \in 0..(batch - 1) |-> m]]}
        ELSE {[kf |-> kf,
               old |-> [m \in DOMAIN W.mappoint |-> m],
               new |-> [m \in next..(next + n - 1) |-> m]] : n \in 0..maxNew}

\* the frontend submits a keyframe at any time, matched against the
\* mappoints it has created
SubmitTracked ==
    /\ stopPc = "idle"
    /\ Cardinality(DOMAIN world.frame) < MaxSubmissions
    /\ \E sub \in TrackedSubmissions(world, SmallBatch, MaxNew) :
          /\ world' = CreateEntities(world, sub)
          /\ ProcessNewKeyframeAsync(sub.kf, sub.old, sub.new)

\* the frontend submits keyframes with up to MaxRivalNew new mappoints
SubmitRivals ==
    /\ stopPc = "idle"
    /\ workerPc = "waiting"
    /\ pending = 0
    /\ Cardinality(DOMAIN world.frame) < MaxRivalKeyframes
    /\ \E sub \in Submissions(world, InitBatch, MaxLo, MaxRivalNew) :
          /\ world' = CreateEntities(world, sub)
          /\ ProcessNewKeyframeAsync(sub.kf, sub.old, sub.new)

\* the frontend, which owns refKeyframe, makes a frame it created its
\* reference keyframe
FrontendSetsRefKeyframe ==
    /\ stopPc = "idle"
    /\ \E k \in DOMAIN world.frame :
          /\ refKeyframe # k
          /\ refKeyframe' = k
    /\ UNCHANGED <<threadVars, workerPc, slotVars, world, optVars, trackingMap,
                   historyVars>>
    /\ UNCHANGED poseVars

\* Backend::CleanUp without the clear() of edgeToKfThenMpt_
CleanUpKeepsEdges ==
    /\ kfIdToCovKfThenVertex_' = EmptyMap
    /\ mptIdToMptThenVertex_' = EmptyMap
    /\ kfIdToFixedKfThenVertex_' = EmptyMap
    /\ edgeToKfThenMpt_' = edgeToKfThenMpt_
    /\ optimizer_' = EmptyOptimizer

\* Backend::CleanUp
CleanUp ==
    /\ kfIdToCovKfThenVertex_' = EmptyMap
    /\ mptIdToMptThenVertex_' = EmptyMap
    /\ kfIdToFixedKfThenVertex_' = EmptyMap
    /\ edgeToKfThenMpt_' = EmptyMap
    /\ optimizer_' = EmptyOptimizer

\* Backend::Stop, line 20
StopSetFlag ==
    /\ stopPc = "idle"
    /\ backendRunning_' = FALSE
    /\ stopPc' = "notify"
    /\ UNCHANGED <<backendMutex_, workerPc, slotVars, world, optVars, frontendVars,
                   historyVars>>
    /\ UNCHANGED poseVars

\* Backend::Stop, line 21
StopNotify ==
    /\ stopPc = "notify"
    /\ workerPc' = NotifyOne(workerPc)
    /\ stopPc' = "join"
    /\ UNCHANGED <<backendRunning_, backendMutex_, slotVars, world, optVars,
                   frontendVars, historyVars>>
    /\ UNCHANGED poseVars

\* Backend::Stop, line 22: join returns once the worker thread has ended
StopJoin ==
    /\ stopPc = "join"
    /\ workerPc = "exited"
    /\ stopPc' = "CleanUp"
    /\ UNCHANGED <<backendRunning_, backendMutex_, workerPc, slotVars, world, optVars,
                   frontendVars, historyVars>>
    /\ UNCHANGED poseVars

\* Backend::Stop, line 24
StopCleanUp ==
    /\ stopPc = "CleanUp"
    /\ CleanUp
    /\ stopPc' = "stopped"
    /\ UNCHANGED <<backendRunning_, backendMutex_, workerPc, slotVars, world,
                   frontendVars, historyVars>>
    /\ UNCHANGED poseVars

(***************************************************************************)
(* The worker thread: Backend::BackendLoop.                                *)
(***************************************************************************)
\* line 44
LoopTest ==
    /\ workerPc = "while"
    /\ workerPc' = IF backendRunning_ THEN "lock" ELSE "exited"
    /\ UNCHANGED <<threadVars, slotVars, world, optVars, frontendVars, historyVars>>
    /\ UNCHANGED poseVars

\* line 46
Lock ==
    /\ workerPc = "lock"
    /\ ~backendMutex_
    /\ backendMutex_' = TRUE
    /\ workerPc' = "wait"
    /\ UNCHANGED <<backendRunning_, stopPc, slotVars, world, optVars, frontendVars,
                   historyVars>>
    /\ UNCHANGED poseVars

\* line 47: wait releases the mutex and blocks
Wait ==
    /\ workerPc = "wait"
    /\ backendMutex_' = FALSE
    /\ workerPc' = "waiting"
    /\ UNCHANGED <<backendRunning_, stopPc, slotVars, world, optVars, frontendVars,
                   historyVars>>
    /\ UNCHANGED poseVars

\* line 47: condition_variable::wait may return without a notification
SpuriousWakeup ==
    /\ workerPc = "waiting"
    /\ workerPc' = "notified"
    /\ UNCHANGED <<threadVars, slotVars, world, optVars, frontendVars, historyVars>>
    /\ UNCHANGED poseVars

\* line 47 if wait returned without backendMutex_
WakeWithoutLock ==
    /\ workerPc = "notified"
    /\ ~backendMutex_
    /\ backendMutex_' = FALSE
    /\ workerPc' = "check"
    /\ UNCHANGED <<backendRunning_, stopPc, slotVars, world, optVars, frontendVars,
                   historyVars>>
    /\ UNCHANGED poseVars

\* line 47: a woken wait returns with the mutex held
Wake ==
    /\ workerPc = "notified"
    /\ ~backendMutex_
    /\ backendMutex_' = TRUE
    /\ workerPc' = "check"
    /\ UNCHANGED <<backendRunning_, stopPc, slotVars, world, optVars, frontendVars,
                   historyVars>>
    /\ UNCHANGED poseVars

\* line 50, and the end of the loop body when the test fails
Check ==
    /\ workerPc = "check"
    /\ IF backendRunning_
       THEN /\ workerPc' = "AddKeyframe"
            /\ pending' = 0
            /\ taken' = pending
            /\ UNCHANGED backendMutex_
       ELSE /\ workerPc' = "while"
            /\ backendMutex_' = FALSE
            /\ UNCHANGED <<pending, taken>>
    /\ UNCHANGED <<backendRunning_, stopPc, slotVars, world, optVars, frontendVars,
                   submitted, fusionInput>>
    /\ UNCHANGED poseVars

\* line 53
RegisterKeyframe ==
    /\ workerPc = "AddKeyframe"
    /\ IF keyframeCurr_ = Null
       THEN workerPc' = "crashed" /\ UNCHANGED world
       ELSE /\ workerPc' = "AddObservingMappointsToNewKeyframe"
            /\ world' = AddKeyframe(world, keyframeCurr_)
    /\ UNCHANGED <<threadVars, slotVars, optVars, frontendVars, historyVars>>
    /\ UNCHANGED poseVars

\* line 54
AttachObservations ==
    /\ workerPc = "AddObservingMappointsToNewKeyframe"
    /\ \E desc \in BOOLEAN :
       \E r \in {AddObservingMappointsToNewKeyframe(
                     world, keyframeCurr_, oldMptIdKptIdxMap_, newMptKptIdxMap_, desc)} :
          /\ world' = r.w
          /\ workerPc' = IF r.ok THEN "AddNewMappointsToExistingKeyframe"
                         ELSE "crashed"
    /\ UNCHANGED <<threadVars, slotVars, optVars, frontendVars, historyVars>>
    /\ UNCHANGED poseVars

\* line 55; the history of the inputs of the fusion is kept when record is set
FuseRecording(record) ==
    /\ workerPc = "AddNewMappointsToExistingKeyframe"
    /\ \E reads \in {FusionReads(world, keyframeCurr_)} :
           \E match \in MatchChoices(reads.kfs, DOMAIN newMptKptIdxMap_) :
           \E kfDesc \in Orders(reads.kfs), mptDesc \in Orders(DOMAIN newMptKptIdxMap_),
              replDesc \in BOOLEAN :
              /\ world' = AddNewMappointsToExistingKeyframe(
                            reads, newMptKptIdxMap_, match, kfDesc, mptDesc, replDesc)
              /\ fusionInput' = IF record
                                THEN [kfs |-> reads.kfs, match |-> match,
                                      kfDesc |-> kfDesc, mptDesc |-> mptDesc]
                                ELSE fusionInput
    /\ workerPc' = "OptimizeLocalMap"
    /\ UNCHANGED <<threadVars, slotVars, optVars, frontendVars, submitted, pending,
                   taken>>
    /\ UNCHANGED poseVars

\* line 55
Fuse == FuseRecording(FALSE)

\* line 55, with the history of its inputs
FuseRecorded == FuseRecording(TRUE)

\* line 56
OptimizeLocalMap ==
    /\ workerPc = "OptimizeLocalMap"
    /\ \E W \in {RefreshCovisible(world, keyframeCurr_)} :
       \E B \in {BuildGraph(W, keyframeCurr_, GetActiveCovisibleKfIds(W, keyframeCurr_))} :
       \E over1 \in OverChoices(B), over2 \in OverChoices(B) :
       \E r \in {OptimizeRound(W, B, over1, over2)} :
          /\ world' = r.w
          /\ optimizer_' = r.opt
          /\ kfIdToCovKfThenVertex_' = r.cov
          /\ mptIdToMptThenVertex_' = r.mptv
          /\ kfIdToFixedKfThenVertex_' = r.fixed
          /\ edgeToKfThenMpt_' = r.e2km
          /\ workerPc' = IF r.ok THEN "UpdateFrontendTrackingMap" ELSE "crashed"
    /\ UNCHANGED <<threadVars, slotVars, frontendVars, historyVars>>
    /\ UNCHANGED poseVars

\* line 57
Handoff ==
    /\ workerPc = "UpdateFrontendTrackingMap"
    /\ \E r \in {UpdateFrontendTrackingMap(
                     world, keyframeCurr_, refKeyframe, trackingMap,
                     kfIdToCovKfThenVertex_, mptIdToMptThenVertex_, optimizer_)} :
          /\ world' = r.w
          /\ refKeyframe' = r.ref
          /\ trackingMap' = r.tm
    /\ workerPc' = "CleanUp"
    /\ UNCHANGED <<threadVars, slotVars, optVars, historyVars>>
    /\ UNCHANGED poseVars

\* line 58, and the end of the loop body: the lock is released
Finish ==
    /\ workerPc = "CleanUp"
    /\ CleanUp
    /\ backendMutex_' = FALSE
    /\ workerPc' = "while"
    /\ UNCHANGED <<backendRunning_, stopPc, slotVars, world, frontendVars, historyVars>>
    /\ UNCHANGED poseVars

Worker ==
    \/ LoopTest \/ Lock \/ Wait \/ Wake \/ Check
    \/ RegisterKeyframe \/ AttachObservations \/ Fuse \/ OptimizeLocalMap
    \/ Handoff \/ Finish

Stop == StopNotify \/ StopJoin \/ StopCleanUp

(***************************************************************************)
(* Frame: the accessors of the pose, frame.h lines 38-54.  An SE3 is a     *)
(* rotation and a translation; a copy or an assignment of it moves them    *)
(* one after the other.                                                    *)
(***************************************************************************)
\* the poses a caller sets
MaxPose == 1

Poses == 0..MaxPose

\* the frontend thread and the backend worker
Threads == {"frontend", "backend"}

\* the pose p as the object holds it
SE3(p) == [rot |-> p, trans |-> p]

\* no thread holds the mutex
NoThread == "none"

NoLocal == [rot |-> Null, trans |-> Null, arg |-> Null, ret |-> <<>>]

\* everything but the frame's pose
backendVars ==
    <<threadVars, workerPc, slotVars, world, optVars, frontendVars, historyVars>>

\* T_c_w_.inverse().translation(), line 53: made of both words of the copy
CamCenter(copy) == <<copy.rot, 0 - copy.trans>>

\* line 39: GetPose takes poseMutex_
GetPoseLock(t) ==
    /\ accessPc[t] = "idle"
    /\ poseMutex_ = NoThread
    /\ poseMutex_' = t
    /\ accessPc' = [accessPc EXCEPT ![t] = "GetPose.rot"]
    /\ accessLocal' = [accessLocal EXCEPT ![t] = NoLocal]
    /\ UNCHANGED <<T_c_w_, backendVars>>

\* line 40: the copy of T_c_w_, first word
GetPoseRot(t) ==
    /\ accessPc[t] = "GetPose.rot"
    /\ accessLocal' = [accessLocal EXCEPT ![t].rot = T_c_w_.rot]
    /\ accessPc' = [accessPc EXCEPT ![t] = "GetPose.trans"]
    /\ UNCHANGED <<T_c_w_, poseMutex_, backendVars>>

\* lines 40-41: second word, return, lck released
GetPoseTrans(t) ==
    /\ accessPc[t] = "GetPose.trans"
    /\ accessLocal' = [accessLocal EXCEPT
                         ![t].trans = T_c_w_.trans,
                         ![t].ret = <<accessLocal[t].rot, T_c_w_.trans>>]
    /\ poseMutex_' = NoThread
    /\ accessPc' = [accessPc EXCEPT ![t] = "idle"]
    /\ UNCHANGED <<T_c_w_, backendVars>>

\* line 44: SetPose takes poseMutex_
SetPoseLock(t, pose) ==
    /\ accessPc[t] = "idle"
    /\ poseMutex_ = NoThread
    /\ poseMutex_' = t
    /\ accessPc' = [accessPc EXCEPT ![t] = "SetPose.rot"]
    /\ accessLocal' = [accessLocal EXCEPT ![t] = [NoLocal EXCEPT !.arg = pose]]
    /\ UNCHANGED <<T_c_w_, backendVars>>

\* line 45: T_c_w_ = move(pose), first word
SetPoseRot(t) ==
    /\ accessPc[t] = "SetPose.rot"
    /\ T_c_w_' = [T_c_w_ EXCEPT !.rot = SE3(accessLocal[t].arg).rot]
    /\ accessPc' = [accessPc EXCEPT ![t] = "SetPose.trans"]
    /\ UNCHANGED <<poseMutex_, accessLocal, backendVars>>

\* lines 45-46: second word, lck released; the function is declared to return
\* an SE3 and has no return statement, so what the caller gets is any value
SetPoseTrans(t) ==
    /\ accessPc[t] = "SetPose.trans"
    /\ T_c_w_' = [T_c_w_ EXCEPT !.trans = SE3(accessLocal[t].arg).trans]
    /\ \E r \in Poses, tr \in Poses :
          accessLocal' = [accessLocal EXCEPT ![t].ret = <<r, tr>>]
    /\ poseMutex_' = NoThread
    /\ accessPc' = [accessPc EXCEPT ![t] = "idle"]
    /\ UNCHANGED backendVars

\* line 53: GetCamCenter reads T_c_w_, first word; it takes no lock
GetCamCenterRot(t) ==
    /\ accessPc[t] = "idle"
    /\ accessLocal' = [accessLocal EXCEPT ![t] = [NoLocal EXCEPT !.rot = T_c_w_.rot]]
    /\ accessPc' = [accessPc EXCEPT ![t] = "GetCamCenter.trans"]
    /\ UNCHANGED <<T_c_w_, poseMutex_, backendVars>>

\* line 53: second word, and the result
GetCamCenterTrans(t) ==
    /\ accessPc[t] = "GetCamCenter.trans"
    /\ accessLocal' = [accessLocal EXCEPT
                         ![t].trans = T_c_w_.trans,
                         ![t].ret = CamCenter([rot |-> accessLocal[t].rot,
                                               trans |-> T_c_w_.trans])]
    /\ accessPc' = [accessPc EXCEPT ![t] = "idle"]
    /\ UNCHANGED <<T_c_w_, poseMutex_, backendVars>>

\* the state after Backend::Backend
Init ==
    /\ backendRunning_ = TRUE
    /\ backendMutex_ = FALSE
    /\ workerPc = "while"
    /\ stopPc = "idle"
    /\ keyframeCurr_ = Null
    /\ oldMptIdKptIdxMap_ = EmptyMap
    /\ newMptKptIdxMap_ = EmptyMap
    /\ world = EmptyWorld
    /\ optimizer_ = EmptyOptimizer
    /\ kfIdToCovKfThenVertex_ = EmptyMap
    /\ mptIdToMptThenVertex_ = EmptyMap
    /\ kfIdToFixedKfThenVertex_ = EmptyMap
    /\ edgeToKfThenMpt_ = EmptyMap
    /\ refKeyframe = Null
    /\ trackingMap = {}
    /\ submitted = [kf |-> Null, old |-> EmptyMap, new |-> EmptyMap]
    /\ pending = 0
    /\ taken = 0
    /\ fusionInput = NoFusion
    /\ T_c_w_ = SE3(0)
    /\ poseMutex_ = NoThread
    /\ accessPc = [t \in Threads |-> "idle"]
    /\ accessLocal = [t \in Threads |-> NoLocal]

\* the two threads, any interleaving, any wake-up of the condition variable
Next ==
    \/ Submit \/ StopSetFlag \/ StopNotify \/ StopJoin \/ StopCleanUp
    \/ SpuriousWakeup
    \/ LoopTest \/ Lock \/ Wait \/ Wake \/ Check
    \/ RegisterKeyframe \/ AttachObservations \/ Fuse \/ OptimizeLocalMap
    \/ Handoff \/ Finish

Spec == Init /\ [][Next]_vars

\* the same without wake-ups that nobody sent
NextFair ==
    \/ Submit \/ StopSetFlag \/ StopNotify \/ StopJoin \/ StopCleanUp
    \/ LoopTest \/ Lock \/ Wait \/ Wake \/ Check
    \/ RegisterKeyframe \/ AttachObservations \/ Fuse \/ OptimizeLocalMap
    \/ Handoff \/ Finish

\* both threads are scheduled fairly: the worker always takes its next step,
\* and a call of Stop, once made, runs on
FairSpec ==
    Init /\ [][NextFair]_vars /\ WF_vars(Worker) /\ WF_vars(Stop)

\* one submission per iteration, processed in full
NextPipeline ==
    \/ SubmitNext
    \/ LoopTest \/ Lock \/ Wait \/ Wake \/ Check
    \/ RegisterKeyframe \/ AttachObservations \/ Fuse \/ OptimizeLocalMap
    \/ Handoff \/ Finish

PipelineSpec == Init /\ [][NextPipeline]_vars

\* the pipeline with large submissions and a frontend that moves refKeyframe
NextHandoff ==
    \/ SubmitLarge \/ FrontendSetsRefKeyframe
    \/ LoopTest \/ Lock \/ Wait \/ Wake \/ Check
    \/ RegisterKeyframe \/ AttachObservations \/ Fuse \/ OptimizeLocalMap
    \/ Handoff \/ Finish

HandoffSpec == Init /\ [][NextHandoff]_vars

\* the two threads without shutdown and without wake-ups that nobody sent; the
\* frontend submits at any time what it matched against its own mappoints
NextLookup ==
    \/ SubmitTracked
    \/ LoopTest \/ Lock \/ Wait \/ Wake \/ Check
    \/ RegisterKeyframe \/ AttachObservations \/ Fuse \/ OptimizeLocalMap
    \/ Handoff \/ Finish

LookupSpec == Init /\ [][NextLookup]_vars

\* the pipeline with submissions of several new mappoints
NextFusion ==
    \/ SubmitRivals
    \/ LoopTest \/ Lock \/ Wait \/ Wake \/ Check
    \/ RegisterKeyframe \/ AttachObservations \/ FuseRecorded \/ OptimizeLocalMap
    \/ Handoff \/ Finish

FusionSpec == Init /\ [][NextFusion]_vars

\* the two threads in the accessors of the pose of one frame
NextAccess ==
    \E t \in Threads :
        \/ GetPoseLock(t) \/ GetPoseRot(t) \/ GetPoseTrans(t)
        \/ \E pose \in Poses : SetPoseLock(t, pose)
        \/ SetPoseRot(t) \/ SetPoseTrans(t)
        \/ GetCamCenterRot(t) \/ GetCamCenterTrans(t)

AccessSpec == Init /\ [][NextAccess]_vars

(***************************************************************************)
(* The hand-over of the input: submission, wake-up, shutdown.              *)
(***************************************************************************)
\* the worker is between line 53 and line 58 of an iteration
InIteration ==
    workerPc \in {"AddKeyframe", "AddObservingMappointsToNewKeyframe",
                  "AddNewMappointsToExistingKeyframe", "OptimizeLocalMap",
                  "UpdateFrontendTrackingMap", "CleanUp"}

\* C1: while the backend is running, an input handed over by
\* ProcessNewKeyframeAsync is eventually taken by the worker (the most recent
\* one when several wait), whatever the worker was doing when it arrived
SubmissionEventuallyProcessed ==
    (pending > 0 /\ stopPc = "idle") ~> (pending = 0 \/ stopPc # "idle")

\* C2: a call of Stop eventually returns, the worker thread exited and joined
StopEventuallyReturns ==
    (stopPc # "idle") ~> (stopPc = "stopped" /\ workerPc = "exited")

\* C3: an iteration works on the keyframe, the old-mappoint map and the
\* new-mappoint map of the most recent submission and on nothing else, however
\* many submissions arrived before the worker woke
IterationUsesLastSubmission ==
    InIteration =>
        /\ keyframeCurr_ = submitted.kf
        /\ oldMptIdKptIdxMap_ = submitted.old
        /\ newMptKptIdxMap_ = submitted.new

\* an iteration that stands for two submissions with different new mappoints
CoalescedIteration ==
    /\ workerPc = "AddObservingMappointsToNewKeyframe"
    /\ taken >= 2
    /\ newMptKptIdxMap_ = submitted.new
    /\ \E m \in DOMAIN world.mappoint : m \notin DOMAIN submitted.new

(***************************************************************************)
(* The map after an iteration.                                             *)
(***************************************************************************)
\* the worker has completed its iterations so far and is in none
IterationDone ==
    workerPc \in {"while", "lock", "wait", "waiting", "notified", "check", "exited"}

\* keyframe k lists (keypoint kp -> mappoint m)
KeyframeLists(W, k, kp, m) ==
    kp \in DOMAIN W.frame[k].observed /\ W.frame[k].observed[kp] = m

\* mappoint m lists (keyframe k -> keypoint kp)
MappointLists(W, m, k, kp) ==
    k \in DOMAIN W.mappoint[m].observedBy /\ W.mappoint[m].observedBy[k] = kp

\* invariant 1 in world W
Bidirectional(W) ==
    /\ \A k \in DOMAIN W.frame : \A kp \in DOMAIN W.frame[k].observed :
          MappointLists(W, W.frame[k].observed[kp], k, kp)
    /\ \A m \in DOMAIN W.mappoint : \A k \in DOMAIN W.mappoint[m].observedBy :
          KeyframeLists(W, k, W.mappoint[m].observedBy[k], m)

\* C4: after every completed iteration keyframe k lists (keypoint i -> mappoint
\* m) if and only if m's observed_by lists (k -> i), for every mappoint, the
\* replaced ones included
ObservationsBidirectional == IterationDone => Bidirectional(world)

\* the mappoints replaced in the running iteration
ReplacedNow ==
    {old \in DOMAIN world.mappoint :
        world.mappoint[old].replacement \in DOMAIN newMptKptIdxMap_}

\* C5: after every completed iteration no keyframe references a mappoint that
\* has a replacement; and when the fusion of an iteration has replaced old by
\* new, get_potential_replacement(old) is new and every keyframe that observed
\* old is listed by new
NoReferenceToReplaced ==
    /\ IterationDone =>
          \A k \in DOMAIN world.frame : \A m \in GetObservingMappointIds(world, k) :
              world.mappoint[m].replacement = Null
    /\ workerPc = "OptimizeLocalMap" =>
          \A old \in ReplacedNow :
              /\ GetPotentialReplacedMappoint(world, old) = world.mappoint[old].replacement
              /\ DOMAIN world.mappoint[old].observedBy
                    \subseteq DOMAIN world.mappoint[world.mappoint[old].replacement].observedBy

\* an iteration is completed whose keyframe was submitted with the id of a
\* mappoint replaced in an earlier iteration, and observes the survivor at
\* that keypoint
ReplacedIdResolved ==
    /\ IterationDone
    /\ submitted.kf \in world.keyframes_
    /\ \E old \in DOMAIN submitted.old :
          /\ world.mappoint[old].replacement # Null
          /\ world.mappoint[old].replacement \notin DOMAIN submitted.new
          /\ KeyframeLists(world, submitted.kf, submitted.old[old],
                           GetPotentialReplacedMappoint(world, old))

\* the observed mappoints of keyframe k are injective in both directions
Injective(W, k) ==
    \A kp1 \in DOMAIN W.frame[k].observed, kp2 \in DOMAIN W.frame[k].observed :
        W.frame[k].observed[kp1] = W.frame[k].observed[kp2] => kp1 = kp2

\* C6: after every completed iteration no mappoint is bound to two keypoints
\* of the same keyframe (a keypoint is a key of the map and has one mappoint)
ObservedMappointsInjective ==
    IterationDone => \A k \in DOMAIN world.frame : Injective(world, k)

(***************************************************************************)
(* Bundle adjustment and the handoff of its results.                       *)
(***************************************************************************)
\* the observation edge e was built for is still registered on its keyframe
Retained(e) ==
    KeyframeLists(world, edgeToKfThenMpt_[e].kf, optimizer_.edges[e].kpt,
                  edgeToKfThenMpt_[e].mpt)

\* C8: when OptimizeLocalMap has returned, every edge of the round whose
\* observation is still registered has level 0 and a chi2 of at most the
\* threshold, and the observation of every edge excluded in pass 1 (level 1)
\* was removed exactly once
RetainedEdgesWithinThreshold ==
    workerPc = "UpdateFrontendTrackingMap" =>
        \A e \in DOMAIN edgeToKfThenMpt_ :
            /\ Retained(e) =>
                  /\ optimizer_.edges[e].level = 0
                  /\ optimizer_.edges[e].chi2 <= chi2Threshold_
            /\ optimizer_.edges[e].level = 1 => optimizer_.edges[e].removed = 1

\* OptimizeLocalMap has returned with an edge excluded in pass 1 that is over
\* the threshold after the second optimization too, and with a retained edge
ExcludedEdgeStillOver ==
    /\ workerPc = "UpdateFrontendTrackingMap"
    /\ \E e \in DOMAIN edgeToKfThenMpt_ :
          /\ optimizer_.edges[e].level = 1
          /\ optimizer_.edges[e].chi2 > chi2Threshold_
          /\ optimizer_.edges[e].removed = 1
    /\ \E e \in DOMAIN edgeToKfThenMpt_ : Retained(e)

\* the estimate of the vertex of mappoint m
EstimateOfMappoint(m) == optimizer_.vertices[mptIdToMptThenVertex_[m]].estimate

\* the estimate of the pose vertex of keyframe k
EstimateOfKeyframe(k) == optimizer_.vertices[kfIdToCovKfThenVertex_[k]].estimate

RoundSet == {m \in DOMAIN mptIdToMptThenVertex_ : ~world.mappoint[m].outlier_}

\* C9: a handoff that finds refKeyframe absent or with another id than the
\* processed keyframe leaves refKeyframe the processed keyframe and trackingMap
\* the non-outlier mappoints with a vertex in the round if they are at least
\* 100, and else all mappoints of the Map Manager; a handoff that finds
\* refKeyframe with the processed keyframe's id changes neither
HandoffResult ==
    [][(workerPc = "UpdateFrontendTrackingMap" /\ workerPc' = "CleanUp") =>
         IF refKeyframe = Null \/ refKeyframe # keyframeCurr_
         THEN /\ refKeyframe' = keyframeCurr_
              /\ trackingMap' = IF Cardinality(RoundSet) >= 100
                                THEN RoundSet
                                ELSE world.mappoints_
         ELSE /\ refKeyframe' = refKeyframe
              /\ trackingMap' = trackingMap]_vars

\* the first handoff installed a round set of at least 100 mappoints that is
\* not the whole map
RoundSetInstalled ==
    /\ workerPc = "CleanUp"
    /\ keyframeCurr_ = 0
    /\ refKeyframe = keyframeCurr_
    /\ trackingMap = RoundSet
    /\ Cardinality(trackingMap) >= 100
    /\ trackingMap # world.mappoints_

(***************************************************************************)
(* Covisibility.                                                           *)
(***************************************************************************)
\* the world as the getters of the covisibility show it: every invalidated
\* cache is rebuilt
Refreshed(W) == RefreshNeighbors(W, Ascending(DOMAIN W.frame))

\* the mappoints observed by both keyframes
SharedMappoints(W, a, b) ==
    GetObservingMappointIds(W, a) \cap GetObservingMappointIds(W, b)

\* invariant 3 for the pair a, b in world W
CovisibilityOfPair(W, a, b) ==
    LET shared == Cardinality(SharedMappoints(W, a, b))
        listed == b \in DOMAIN W.frame[a].covisible
    IN  /\ listed <=> a \in DOMAIN W.frame[b].covisible
        /\ listed <=> shared >= 15
        /\ listed => /\ W.frame[a].covisible[b] = shared
                     /\ W.frame[b].covisible[a] = shared

\* C7: after every completed iteration, for every pair of keyframes a, b: b is
\* listed in a's covisibility with weight w if and only if a is listed in b's
\* with the same w, w is the number of mappoints observed by both, and the
\* pair is listed exactly when that number is at least 15
CovisibilityInvariant ==
    IterationDone =>
        \A a \in world.keyframes_ : \A b \in world.keyframes_ \ {a} :
            CovisibilityOfPair(Refreshed(world), a, b)

(***************************************************************************)
(* Errors inside an iteration.                                             *)
(***************************************************************************)
\* C11: a keyframe id or mappoint id that resolves to none during an
\* iteration never tears down the worker: the entity is skipped without being
\* dereferenced and the worker goes on to wait for the next input
WorkerSurvivesLookupMiss == workerPc # "crashed"

(***************************************************************************)
(* The state an iteration leaves behind.                                   *)
(***************************************************************************)
\* C12: whenever the worker is not inside an iteration (before the first
\* input, between iterations, after Stop has returned) the optimizer holds no
\* vertex and no edge and the four maps of the round are empty
OptimizerScopedToIteration ==
    IterationDone =>
        /\ optimizer_ = EmptyOptimizer
        /\ kfIdToCovKfThenVertex_ = EmptyMap
        /\ kfIdToFixedKfThenVertex_ = EmptyMap
        /\ mptIdToMptThenVertex_ = EmptyMap
        /\ edgeToKfThenMpt_ = EmptyMap

\* Stop has returned after an iteration that optimized a mappoint
StoppedAfterOptimization ==
    /\ stopPc = "stopped"
    /\ workerPc = "exited"
    /\ \E m \in world.mappoints_ : world.mappoint[m].optimized_

\* C13: after the worker has exited and Stop has returned the input slot is
\* empty: no current keyframe, and both stored maps are empty
InputSlotClearedAfterStop ==
    (stopPc = "stopped" /\ workerPc = "exited") =>
        /\ keyframeCurr_ = Null
        /\ oldMptIdKptIdxMap_ = EmptyMap
        /\ newMptKptIdxMap_ = EmptyMap

(***************************************************************************)
(* Fusion.                                                                 *)
(***************************************************************************)
\* the registered keyframes within two hops of keyframe cur in the
\* covisibility of world W, without cur
TwoHops(W, cur) ==
    LET one == GetAllCovisibleKfIds(W, cur)
        two == UNION {GetAllCovisibleKfIds(W, k) : k \in one \cap W.keyframes_}
    IN  ((one \cup two) \cap W.keyframes_) \ {cur}

\* C14: the keyframes the fusion of the submitted keyframe sweeps are its
\* covisible keyframes and the covisible keyframes of each of those, as far as
\* they are registered, without the submitted keyframe itself
FusionSweepsTwoHops ==
    workerPc = "AddNewMappointsToExistingKeyframe" =>
        FusionReads(world, keyframeCurr_).kfs
            = TwoHops(FusionReads(world, keyframeCurr_).w, keyframeCurr_)

\* the fusion step
FuseStep ==
    workerPc = "AddNewMappointsToExistingKeyframe" /\ workerPc' = "OptimizeLocalMap"

\* what GetMatchedKeypoint returned for the new mappoint mpt in keyframe kf
MatchOf(input, kf, mpt) == input.match[<<kf, mpt>>]

\* the match of mpt in kf is a candidate: found and within the threshold
IsCandidate(input, kf, mpt) ==
    /\ MatchOf(input, kf, mpt).found
    /\ MatchOf(input, kf, mpt).distance <= reMatchDescriptorDistance_

\* the pair p = <<kf, mpt>> is encountered before the pair q by a sweep that
\* visits the keyframes and, for each, the new mappoints in the given orders
Before(input, p, q) ==
    IF p[1] # q[1]
    THEN IF input.kfDesc THEN p[1] > q[1] ELSE p[1] < q[1]
    ELSE IF input.mptDesc THEN p[2] > q[2] ELSE p[2] < q[2]

\* p is the best of the candidate pairs P: the smallest distance, and the
\* first encountered among those of that distance
IsBest(input, P, p) ==
    /\ p \in P
    /\ \A q \in P \ {p} :
          \/ MatchOf(input, p[1], p[2]).distance < MatchOf(input, q[1], q[2]).distance
          \/ /\ MatchOf(input, p[1], p[2]).distance = MatchOf(input, q[1], q[2]).distance
             /\ Before(input, p, q)

\* the candidates for the old mappoint old: it is bound to the matched
\* keypoint of a swept keyframe in world W
CandidatesOfOld(W, input, news, old) ==
    {p \in input.kfs \X news :
        /\ IsCandidate(input, p[1], p[2])
        /\ KeyframeLists(W, p[1], MatchOf(input, p[1], p[2]).kptIdx, old)}

\* the candidates for the keypoint kp of keyframe kf, empty in world W
CandidatesOfKeypoint(W, input, news, kf, kp) ==
    {p \in {kf} \X news :
        /\ IsCandidate(input, kf, p[2])
        /\ MatchOf(input, kf, p[2]).kptIdx = kp
        /\ kp \notin DOMAIN W.frame[kf].observed}

FixedPosesUnchanged ==
    [][\A k \in DOMAIN world.frame :
          (k = 0 \/ k \notin DOMAIN kfIdToCovKfThenVertex_) =>
              world'.frame[k].pose = world.frame[k].pose]_vars

\* a handoff was made in a round with keyframe 0 in L, with a fixed pose
\* vertex for a keyframe outside L that an earlier round had moved, and the
\* submitted keyframe was moved
WindowMovedAnchorKept ==
    /\ workerPc = "CleanUp"
    /\ 0 \in DOMAIN kfIdToCovKfThenVertex_
    /\ keyframeCurr_ # 0
    /\ world.frame[keyframeCurr_].pose > 0
    /\ world.frame[0].pose = 0
    /\ \E k \in DOMAIN kfIdToFixedKfThenVertex_ : k # 0 /\ world.frame[k].pose > 0

(***************************************************************************)
(* C17: every read and every write of a keyframe's pose is made by a       *)
(* thread that holds the keyframe's pose lock, so no thread is reading     *)
(* the pose (in GetPose or GetCamCenter) while the other thread is in      *)
(* SetPose.                                                                *)
(***************************************************************************)
ReadsPose(t) == accessPc[t] \in {"GetPose.rot", "GetPose.trans", "GetCamCenter.trans"}

WritesPose(t) == accessPc[t] \in {"SetPose.rot", "SetPose.trans"}

PoseAccessUnderLock ==
    /\ \A t \in Threads : (ReadsPose(t) \/ WritesPose(t)) => poseMutex_ = t
    /\ \A a \in Threads, b \in Threads : ~(a # b /\ ReadsPose(a) /\ WritesPose(b))

(***************************************************************************)
(* C18: the input slot is stable during an iteration.  From the start of   *)
(* the pipeline until the end of its cleanup the worker holds              *)
(* backendMutex_, no step changes the stored keyframe or the two stored    *)
(* maps, and no call of ProcessNewKeyframeAsync takes effect.              *)
(***************************************************************************)
SlotStableDuringIteration ==
    [][InIteration =>
          /\ backendMutex_
          /\ slotVars' = slotVars
          /\ submitted' = submitted
          /\ pending' = pending]_vars

\* the frontend has a keyframe to submit and the running iteration holds it
\* back; the iteration works on the submission that is stored
SubmissionHeldBack ==
    /\ workerPc = "CleanUp"
    /\ backendMutex_
    /\ stopPc = "idle"
    /\ Cardinality(DOMAIN world.frame) < MaxSubmissions
    /\ keyframeCurr_ = submitted.kf
    /\ keyframeCurr_ # Null

(***************************************************************************)
(* C19: each run of the pipeline consumes a fresh submission.  Whenever    *)
(* the worker is in the pipeline the slot holds a keyframe and at least    *)
(* one submission arrived since the previous run took its input, whatever  *)
(* wake-ups of the condition variable occurred.                            *)
(***************************************************************************)
RunConsumesFreshSubmission ==
    InIteration => (keyframeCurr_ # Null /\ taken > 0)

(***************************************************************************)
(* C20: within one round of bundle adjustment every participating          *)
(* keyframe has exactly one pose vertex.  All edges of one keyframe, a     *)
(* keyframe of L or a fixed keyframe outside L, are attached to the same   *)
(* pose vertex, and the optimizer holds as many pose vertices as there     *)
(* are distinct participating keyframes.                                   *)
(***************************************************************************)
PoseVertices == {v \in DOMAIN optimizer_.vertices : optimizer_.vertices[v].kind = "pose"}

ParticipatingKeyframes ==
    DOMAIN kfIdToCovKfThenVertex_
        \cup {edgeToKfThenMpt_[e].kf : e \in DOMAIN edgeToKfThenMpt_}

OnePoseVertexPerKeyframe ==
    /\ \A e1 \in DOMAIN edgeToKfThenMpt_, e2 \in DOMAIN edgeToKfThenMpt_ :
          edgeToKfThenMpt_[e1].kf = edgeToKfThenMpt_[e2].kf =>
              optimizer_.edges[e1].pose = optimizer_.edges[e2].pose
    /\ Cardinality(PoseVertices) = Cardinality(ParticipatingKeyframes)

(***************************************************************************)
(* C21: within one fusion the mappoints that get replaced and the          *)
(* mappoints used as survivors are disjoint.  Every survivor passed to     *)
(* ReplaceMappoint is a new mappoint of the submission, no new mappoint    *)
(* of the submission is an old side, and so the fusion replaces no         *)
(* mappoint by itself and by no mappoint that is itself replaced.          *)
(***************************************************************************)
\* oldMptIdToNewMptIdAndDistance of the fusion made with the recorded input
ReplacementsOf(input) ==
    FusionSweep(FusionReads(world, keyframeCurr_).w, input.kfs, newMptKptIdxMap_,
                input.match, input.kfDesc, input.mptDesc).cand

FusionSidesDisjoint ==
    [][FuseStep =>
         LET news == DOMAIN newMptKptIdxMap_
             cand == ReplacementsOf(fusionInput')
             replaced == DOMAIN cand
             survivors == {cand[old].mpt : old \in replaced}
         IN  /\ survivors \subseteq news
             /\ replaced \cap news = {}
             /\ replaced \cap survivors = {}
             /\ \A m \in DOMAIN world.mappoint :
                   world'.mappoint[m].replacement # world.mappoint[m].replacement =>
                      /\ m \in replaced
                      /\ world'.mappoint[m].replacement = cand[m].mpt
                      /\ world'.mappoint[m].replacement # m
                      /\ world'.mappoint[cand[m].mpt].replacement = Null]_vars

\* a fusion replaced two old mappoints by the two new mappoints of the
\* submission
TwoReplacedByTwoNew ==
    /\ workerPc = "OptimizeLocalMap"
    /\ fusionInput.kfs # {}
    /\ \E o1 \in world.mappoints_, o2 \in world.mappoints_ :
          /\ o1 # o2
          /\ {o1, o2} \cap DOMAIN newMptKptIdxMap_ = {}
          /\ world.mappoint[o1].replacement \in DOMAIN newMptKptIdxMap_
          /\ world.mappoint[o2].replacement \in DOMAIN newMptKptIdxMap_
          /\ world.mappoint[o1].replacement # world.mappoint[o2].replacement

====
